---- MODULE Spec2Model ----
(***************************************************************************)
(* Model of the Naver Maps MCP server: the coordinate classifier, the      *)
(* provider request gateway and the four tool handlers.                    *)
(*                                                                         *)
(* The canonical revision is src/unnamed/part_001; src/src/index.ts is the *)
(* entry file named by src/smithery.yaml and holds an earlier revision of  *)
(* the gateway and of the classifier.                                      *)
(*                                                                         *)
(* A JavaScript string is a sequence of one-character strings.  The fixed  *)
(* Korean labels of the source are single elements of such a sequence,     *)
(* written in ASCII transliteration.                                       *)
(***************************************************************************)
EXTENDS Integers, Sequences, FiniteSets, TLC

VARIABLES
    str,        \* classifier run: the string handed to isCoordinate
    genParts,   \* classifier run: the comma separated pieces str was built from
    clsPc,      \* classifier run: "input" | "classified" | "off"
    clsHard,    \* classifier run: result of isCoordinate of part_001
    clsEntry,   \* classifier run: result of isCoordinate of index.ts
    config,     \* the configuration the server was constructed with
    revision,   \* the source file that is deployed: "part_001" | "index.ts"
    window,     \* the host's global window: its hostname, or <<>> when the
                \* host declares no such global (Node)
    pc,         \* per invocation: where the handler is suspended
    args,       \* per invocation: the validated input of the tool call
    local,      \* per invocation: the handler's local variables
    sent,       \* per invocation: the provider requests issued so far
    got,        \* per invocation: the outcomes of those requests
    result      \* per invocation: what the handler handed to the runtime

clsVars == <<str, genParts, clsPc, clsHard, clsEntry>>

srvVars == <<config, revision, window, pc, args, local, sent, got, result>>

vars == <<clsVars, srvVars>>

-----------------------------------------------------------------------------
(* LET x == e IN b is written The({b : x \in {e}}) where e is costly and x *)
(* is used more than once: x is then bound to the value of e.              *)

\* The element of a one-element set.
The(S) == CHOOSE x \in S : TRUE

-----------------------------------------------------------------------------
(* Strings *)

Digits == <<"0", "1", "2", "3", "4", "5", "6", "7", "8", "9">>

IsDigit(c) == \E d \in 1..10 : Digits[d] = c

DigitVal(c) == (CHOOSE d \in 1..10 : Digits[d] = c) - 1

\* White space as String.prototype.trim and parseFloat strip it.
IsWhiteSpace(c) == c \in {" ", "\t", "\n"}

RECURSIVE TrimStart(_)
TrimStart(s) ==
    IF s # <<>> /\ IsWhiteSpace(Head(s)) THEN TrimStart(Tail(s)) ELSE s

RECURSIVE TrimEnd(_)
TrimEnd(s) ==
    IF s # <<>> /\ IsWhiteSpace(s[Len(s)])
    THEN TrimEnd(SubSeq(s, 1, Len(s) - 1))
    ELSE s

\* s.trim()
trim(s) == TrimEnd(TrimStart(s))

\* s.split(","): the pieces between the commas; never the empty list.
RECURSIVE SplitFrom(_, _, _)
SplitFrom(s, i, cur) ==
    IF i > Len(s) THEN <<cur>>
    ELSE IF s[i] = "," THEN <<cur>> \o SplitFrom(s, i + 1, <<>>)
    ELSE SplitFrom(s, i + 1, Append(cur, s[i]))

split(s) == SplitFrom(s, 1, <<>>)

RECURSIVE Pow10(_)
Pow10(n) == IF n <= 0 THEN 1 ELSE 10 * Pow10(n - 1)

-----------------------------------------------------------------------------
(* parseFloat: the longest prefix that is a StrDecimalLiteral, else NaN.   *)
(* A number is sign * mant * 10^exp, or an infinity.                       *)

NaN == [nan |-> TRUE]

Finite(sign, mant, exp, used) ==
    [nan |-> FALSE, inf |-> FALSE, sign |-> sign, mant |-> mant, exp |-> exp,
     used |-> used]

Infinite(sign, used) ==
    [nan |-> FALSE, inf |-> TRUE, sign |-> sign, mant |-> 0, exp |-> 0,
     used |-> used]

isNaN(v) == v.nan

\* Number of consecutive digits of s from index i on.
RECURSIVE DigitRun(_, _)
DigitRun(s, i) ==
    IF i <= Len(s) /\ IsDigit(s[i]) THEN 1 + DigitRun(s, i + 1) ELSE 0

\* Value of the n digits of s from index i on.
RECURSIVE DigitsValue(_, _, _)
DigitsValue(s, i, n) ==
    IF n = 0 THEN 0
    ELSE 10 * DigitsValue(s, i, n - 1) + DigitVal(s[i + n - 1])

InfinityWord == <<"I", "n", "f", "i", "n", "i", "t", "y">>

HasAt(s, i, w) ==
    /\ i + Len(w) - 1 <= Len(s)
    /\ SubSeq(s, i, i + Len(w) - 1) = w

\* The exponent part of t from index q on, if there is one: the literal's
\* exponent and the index of its last character.
ExponentPart(t, q) ==
    IF q <= Len(t) /\ t[q] \in {"e", "E"}
    THEN The({ IF DigitRun(t, eFrom) = 0 THEN [exp |-> 0, last |-> q - 1]
               ELSE [exp  |-> (IF t[eFrom - 1] = "-" THEN -1 ELSE 1)
                                * DigitsValue(t, eFrom, DigitRun(t, eFrom)),
                     last |-> eFrom + DigitRun(t, eFrom) - 1] :
               eFrom \in {IF q + 1 <= Len(t) /\ t[q + 1] \in {"+", "-"}
                          THEN q + 2 ELSE q + 1} })
    ELSE [exp |-> 0, last |-> q - 1]

\* The mantissa of t from index p on: ni digits, and after a dot nf digits.
Mantissa(t, p, ni) ==
    IF p + ni <= Len(t) /\ t[p + ni] = "."
    THEN The({ [digits |-> ni + nf,
                mant   |-> DigitsValue(t, p, ni) * Pow10(nf)
                             + DigitsValue(t, p + ni + 1, nf),
                nf     |-> nf,
                \* index of the first character after the mantissa
                next   |-> IF ni + nf > 0 THEN p + ni + 1 + nf ELSE p] :
               nf \in {DigitRun(t, p + ni + 1)} })
    ELSE [digits |-> ni, mant |-> DigitsValue(t, p, ni), nf |-> 0,
          next |-> p + ni]

\* The unsigned literal of t from index p on, t having no leading blanks.
ParseUnsigned(t, p, sign) ==
    IF HasAt(t, p, InfinityWord) THEN Infinite(sign, p + 7)
    ELSE The({ IF m.digits = 0 THEN NaN
               ELSE The({ Finite(sign, m.mant, e.exp - m.nf, e.last) :
                          e \in {ExponentPart(t, m.next)} }) :
               m \in {Mantissa(t, p, DigitRun(t, p))} })

\* parseFloat(s); used counts the characters of s that were read.
parseFloat(s) ==
    The({ The({ IF r.nan THEN NaN
                ELSE [r EXCEPT !.used = r.used + (Len(s) - Len(t))] :
                r \in {ParseUnsigned(t,
                         IF t # <<>> /\ t[1] \in {"+", "-"} THEN 2 ELSE 1,
                         IF t # <<>> /\ t[1] = "-" THEN -1 ELSE 1)} }) :
          t \in {TrimStart(s)} })

\* v <= n and v >= n for a parsed number v and an integer n.
NumLE(v, n) ==
    IF v.inf THEN v.sign < 0
    ELSE IF v.exp >= 0 THEN v.sign * v.mant * Pow10(v.exp) <= n
    ELSE v.sign * v.mant <= n * Pow10(0 - v.exp)

NumGE(v, n) ==
    IF v.inf THEN v.sign > 0
    ELSE IF v.exp >= 0 THEN v.sign * v.mant * Pow10(v.exp) >= n
    ELSE v.sign * v.mant >= n * Pow10(0 - v.exp)

-----------------------------------------------------------------------------
(* The coordinate classifier *)

\* Element i of a destructured array: undefined, hence NaN to isNaN, when
\* the array is shorter.
ElementOrNaN(nums, i) == IF Len(nums) >= i THEN nums[i] ELSE NaN

\* str.split(",").map((s) => parseFloat(s.trim()))
ParsedParts(s) ==
    The({ [i \in 1..Len(parts) |-> parseFloat(trim(parts[i]))] :
          parts \in {split(s)} })

\* A slip in the range test: the upper bounds excluded.
isCoordinateOpenRange(s) ==
    \E nums \in {ParsedParts(s)} :
      \E lng \in {ElementOrNaN(nums, 1)}, lat \in {ElementOrNaN(nums, 2)} :
        /\ ~isNaN(lng)
        /\ ~isNaN(lat)
        /\ NumGE(lng, -180)
        /\ ~NumGE(lng, 180)
        /\ NumGE(lat, -90)
        /\ ~NumGE(lat, 90)

\* A slip in the range test: only the lower bounds tested.
isCoordinateLowerOnly(s) ==
    \E nums \in {ParsedParts(s)} :
      \E lng \in {ElementOrNaN(nums, 1)}, lat \in {ElementOrNaN(nums, 2)} :
        /\ ~isNaN(lng)
        /\ ~isNaN(lat)
        /\ NumGE(lng, -180)
        /\ NumGE(lat, -90)

\* isCoordinate of the canonical revision:
\* const [lng, lat] = str.split(",").map((s) => parseFloat(s.trim()))
isCoordinate(s) ==
    \E nums \in {ParsedParts(s)} :
      \E lng \in {ElementOrNaN(nums, 1)}, lat \in {ElementOrNaN(nums, 2)} :
        /\ ~isNaN(lng)
        /\ ~isNaN(lat)
        /\ NumGE(lng, -180)
        /\ NumLE(lng, 180)
        /\ NumGE(lat, -90)
        /\ NumLE(lat, 90)

\* isCoordinate of the entry file.
isCoordinateEntry(s) ==
    \E parts \in {split(s)} :
        /\ Len(parts) = 2
        /\ ~isNaN(parseFloat(parts[1]))
        /\ ~isNaN(parseFloat(parts[2]))

-----------------------------------------------------------------------------
(* JavaScript values.  Numbers are carried in tenths: Num(375) is 37.5.    *)

Undefined == [t |-> "undefined"]

Null == [t |-> "null"]

Str(s) == [t |-> "string", s |-> s]

Num(tenths) == [t |-> "number", n |-> tenths]

Arr(a) == [t |-> "array", a |-> a]

\* Decimal digits of a natural number.
RECURSIVE NatToString(_)
NatToString(n) ==
    IF n < 10 THEN <<Digits[n + 1]>>
    ELSE NatToString(n \div 10) \o <<Digits[(n % 10) + 1]>>

Abs(n) == IF n < 0 THEN 0 - n ELSE n

\* Number::toString of a number given in tenths: 1270 is "127", 375 "37.5".
NumberToString(tenths) ==
    LET a == Abs(tenths)
    IN  (IF tenths < 0 THEN <<"-">> ELSE <<>>)
        \o NatToString(a \div 10)
        \o (IF a % 10 = 0 THEN <<>> ELSE <<".", Digits[(a % 10) + 1]>>)

\* String(v), and ${v} in a template literal.
StringOf(v) ==
    CASE v.t = "string"    -> v.s
      [] v.t = "number"    -> NumberToString(v.n)
      [] v.t = "undefined" -> <<"undefined">>
      [] v.t = "null"      -> <<"null">>
      [] v.t = "array"     -> <<"[array]">>
      [] OTHER             -> <<"[object Object]">>

\* Truthiness of a value used as a condition.
Truthy(v) ==
    CASE v.t = "string"    -> v.s # <<>>
      [] v.t = "number"    -> v.n # 0
      [] v.t = "undefined" -> FALSE
      [] v.t = "null"      -> FALSE
      [] OTHER             -> TRUE

\* a || b
Or(a, b) == IF Truthy(a) THEN a ELSE b

\* v is null or undefined: reading a property of it throws a TypeError.
Nullish(v) == v.t \in {"undefined", "null"}

\* Whether the text t holds the characters w in a row.
Contains(t, w) == \E i \in 1..(Len(t) - Len(w) + 1) : SubSeq(t, i, i + Len(w) - 1) = w

-----------------------------------------------------------------------------
(* Outcomes of evaluating code: a value, a suspension or a thrown error.   *)

Value(v) == [thrown |-> FALSE, v |-> v]

Throw(message) == [thrown |-> TRUE, message |-> message]

\* Messages of the errors the platform raises.
FetchFailed == <<"fetch failed">>

JsonSyntaxError == <<"Unexpected token in JSON">>

NullPropertyError == <<"Cannot read properties of null">>

WindowReferenceError == <<"window is not defined">>

-----------------------------------------------------------------------------
(* The provider request gateway: makeNaverAPIRequest *)

GeocodeEndpoint == "/map-geocode/v2/geocode"

ReverseEndpoint == "/map-reversegeocode/v2/gc"

DirectionsEndpoint == "/map-direction/v1/driving"

RasterEndpoint == "/map-static/v2/raster"

\* The label "naver API oryu: " of the error raised on a failed status.
ApiErrorLabel == "Naver API error: "

\* A gateway that appends every entry, undefined values included.
QueryStringUnfiltered(params) ==
    [j \in 1..Len(params) |-> <<params[j][1], StringOf(params[j][2])>>]

\* url.searchParams.append for every entry whose value is not undefined.
QueryString(params) ==
    LET kept == SelectSeq(params, LAMBDA e : e[2] # Undefined)
    IN  [j \in 1..Len(kept) |-> <<kept[j][1], StringOf(kept[j][2])>>]

\* A gateway that puts each credential under the other header.
RequestCredentialsSwapped(endpoint, params, expectBinary) ==
    [ method  |-> "GET",
      base    |-> "https://maps.apigw.ntruss.com",
      path    |-> endpoint,
      query   |-> QueryString(params),
      keyId   |-> config.NAVER_CLIENT_SECRET,
      key     |-> config.NAVER_CLIENT_ID,
      binary  |-> expectBinary ]

\* The fetch call makeNaverAPIRequest issues.
Request(endpoint, params, expectBinary) ==
    [ method  |-> "GET",
      base    |-> "https://maps.apigw.ntruss.com",
      path    |-> endpoint,
      query   |-> QueryString(params),
      keyId   |-> config.NAVER_CLIENT_ID,
      key     |-> config.NAVER_CLIENT_SECRET,
      binary  |-> expectBinary ]

\* What the provider may do with a request: the fetch is rejected, or a
\* response arrives with a status, a reason phrase and a body.  A body is
\* JSON text, given by its parsed value, or raw bytes that are no JSON.
Rejected == [kind |-> "reject"]

JsonBody(v) == [k |-> "json", v |-> v]

RawBody(b) == [k |-> "raw", b |-> b]

Response(status, statusText, body) ==
    [kind |-> "response", status |-> status, statusText |-> statusText,
     body |-> body]

\* response.ok
Ok(o) == o.status >= 200 /\ o.status <= 299

\* A gateway whose failed-status error leaves the status code out.
CompletionNoStatus(o, expectBinary) ==
    IF o.kind = "reject" THEN Throw(FetchFailed)
    ELSE IF ~Ok(o) THEN Throw(<<ApiErrorLabel>> \o o.statusText)
    ELSE IF expectBinary THEN Value(o.body.b)
    ELSE IF o.body.k = "json" THEN Value(o.body.v)
    ELSE Throw(JsonSyntaxError)

\* makeNaverAPIRequest of the canonical revision, from the moment the fetch
\* settles: the value it resolves to or the error it throws.
Completion(o, expectBinary) ==
    IF o.kind = "reject" THEN Throw(FetchFailed)
    ELSE IF ~Ok(o)
         THEN Throw(<<ApiErrorLabel>> \o NatToString(o.status) \o <<" ">>
                    \o o.statusText)
    ELSE IF expectBinary THEN Value(o.body.b)
    ELSE IF o.body.k = "json" THEN Value(o.body.v)
    ELSE Throw(JsonSyntaxError)

\* makeNaverAPIRequest of the entry file: the error message reads
\* window.location.hostname, which throws a ReferenceError where the host
\* declares no window.
CompletionEntry(o) ==
    IF o.kind = "reject" THEN Throw(FetchFailed)
    ELSE IF ~Ok(o)
         THEN IF window = <<>>
              THEN Throw(WindowReferenceError)
              ELSE Throw(<<ApiErrorLabel>> \o NatToString(o.status) \o <<" ">>
                         \o o.statusText \o <<" ">> \o window)
    ELSE IF o.body.k = "json" THEN Value(o.body.v)
    ELSE Throw(JsonSyntaxError)

\* The gateway of the deployed revision.
Settle(o, expectBinary) ==
    IF revision = "part_001" THEN Completion(o, expectBinary)
    ELSE CompletionEntry(o)

\* The classifier of the deployed revision.
Classified(s) ==
    IF revision = "part_001" THEN isCoordinate(s) ELSE isCoordinateEntry(s)

-----------------------------------------------------------------------------
(* Tool results and handler steps *)

TextItem(text) == [type |-> "text", text |-> text]

ImageItem(uri) == [type |-> "image", image_url |-> uri]

\* The label "oryu balsaeng: " every catch block puts before err.message.
ErrorPrefix == "Error occurred: "

\* "gyeongroreul chajeul su eopsseumnida."
RouteNotFound == "No route found."

\* "jusoreul chajeul su eopsseumnida."
AddressNotFound == "Address not found."

\* "haedang jwapyoui jusoreul chajeul su eopsseumnida."
CoordinateAddressNotFound == "No address found for this coordinate."

\* "jiokoding gyeolgwaga eopsseumnida."
NoGeocodingResult == "No geocoding result."

\* A step of a handler ends by suspending on a request, by returning a
\* result or by throwing.
Await(at, loc, req) == [k |-> "await", pc |-> at, local |-> loc, req |-> req]

Return(content) == [k |-> "return", content |-> content]

Raise(message) == [k |-> "throw", message |-> message]

\* A handler whose catch block is missing: the error propagates.
TryCatchMissing(r) == r

\* try { ... } catch (err) { return text "oryu balsaeng: " + err.message }
TryCatch(r) ==
    IF r.k = "throw"
    THEN Return(<<TextItem(<<ErrorPrefix>> \o r.message)>>)
    ELSE r

NoLocals == [startCoords |-> <<>>, goalCoords |-> <<>>, centerCoords |-> <<>>]

GeocodeRequest(query) ==
    Request(GeocodeEndpoint, <<<<"query", Str(query)>>>>, FALSE)

\* list?.[0]
FirstOf(list) ==
    IF list.t = "array" /\ Len(list.a) > 0 THEN list.a[1] ELSE Undefined

\* list?.length, as a condition
HasLength(list) == list.t = "array" /\ Len(list.a) > 0

\* A resolution that gives up when the geocoder lists no candidate.
ResolveCoordsOrFail(geo, current) ==
    IF Nullish(geo) THEN Throw(NullPropertyError)
    ELSE IF HasLength(geo.addresses)
         THEN IF Nullish(geo.addresses.a[1]) THEN Throw(NullPropertyError)
              ELSE Value(StringOf(geo.addresses.a[1].x) \o <<",">>
                         \o StringOf(geo.addresses.a[1].y))
    ELSE Throw(<<NoGeocodingResult>>)

\* if (geo.addresses?.length) { const {x, y} = geo.addresses[0];
\*   coords = `${x},${y}` }: the string the handler goes on with.
ResolveCoords(geo, current) ==
    IF Nullish(geo) THEN Throw(NullPropertyError)
    ELSE IF HasLength(geo.addresses)
         THEN IF Nullish(geo.addresses.a[1]) THEN Throw(NullPropertyError)
              ELSE Value(StringOf(geo.addresses.a[1].x) \o <<",">>
                         \o StringOf(geo.addresses.a[1].y))
    ELSE Value(current)

-----------------------------------------------------------------------------
(* naver_directions *)

DirectionsRequest(a, loc) ==
    Request(DirectionsEndpoint,
            <<<<"start", Str(loc.startCoords)>>,
              <<"goal", Str(loc.goalCoords)>>,
              <<"option", Str(<<a.option>>)>>>>
              \o (IF Truthy(a.waypoints)
                  THEN <<<<"waypoints", a.waypoints>>>>
                  ELSE <<>>),
            FALSE)

\* A handler that geocodes the goal whatever the classifier says.
DirectionsGoalStepAlwaysGeocode(a, loc) ==
    Await("goalGeo", loc, GeocodeRequest(a.goal))

\* From the test of the goal on.
DirectionsGoalStep(a, loc) ==
    IF ~Classified(a.goal)
    THEN Await("goalGeo", loc, GeocodeRequest(a.goal))
    ELSE Await("route", loc, DirectionsRequest(a, loc))

\* A handler that resolves the goal before the start and then goes on.
DirectionsBeginGoalFirst(a) ==
    LET loc == [NoLocals EXCEPT !.startCoords = a.start, !.goalCoords = a.goal]
    IN  IF ~Classified(a.goal)
        THEN Await("goalGeo", loc, GeocodeRequest(a.goal))
        ELSE IF ~Classified(a.start)
        THEN Await("startGeo", loc, GeocodeRequest(a.start))
        ELSE Await("route", loc, DirectionsRequest(a, loc))

\* From the call up to the first suspension.
DirectionsBegin(a) ==
    LET loc == [NoLocals EXCEPT !.startCoords = a.start, !.goalCoords = a.goal]
    IN  IF ~Classified(a.start)
        THEN Await("startGeo", loc, GeocodeRequest(a.start))
        ELSE DirectionsGoalStep(a, loc)

\* A handler that goes on with the start as typed when its geocode request
\* failed.
DirectionsAfterStartGeoLenient(a, loc, c) ==
    IF c.thrown THEN DirectionsGoalStep(a, loc)
        ELSE LET r == ResolveCoords(c.v, loc.startCoords)
             IN  IF r.thrown THEN Raise(r.message)
                 ELSE DirectionsGoalStep(a, [loc EXCEPT !.startCoords = r.v])

DirectionsAfterStartGeo(a, loc, c) ==
    IF c.thrown THEN Raise(c.message)
        ELSE LET r == ResolveCoords(c.v, loc.startCoords)
             IN  IF r.thrown THEN Raise(r.message)
                 ELSE DirectionsGoalStep(a, [loc EXCEPT !.startCoords = r.v])

DirectionsAfterGoalGeo(a, loc, c) ==
    IF c.thrown THEN Raise(c.message)
        ELSE LET r == ResolveCoords(c.v, loc.goalCoords)
             IN  IF r.thrown THEN Raise(r.message)
                 ELSE LET loc2 == [loc EXCEPT !.goalCoords = r.v]
                      IN  Await("route", loc2, DirectionsRequest(a, loc2))

NoRoute ==
    [t |-> "object", trafast |-> Undefined, traoptimal |-> Undefined,
     tracomfort |-> Undefined, trainormal |-> Undefined]

\* A selection that honours the requested option only.
BestRouteRequestedOnly(route, option) ==
    CASE option = "trafast"    -> FirstOf(route.trafast)
      [] option = "traoptimal" -> FirstOf(route.traoptimal)
      [] option = "tracomfort" -> FirstOf(route.tracomfort)
      [] OTHER                 -> FirstOf(route.trainormal)

\* route.trafast?.[0] || route.traoptimal?.[0] || route.tracomfort?.[0]
\*   || route.trainormal?.[0]
BestRoute(route, option) ==
    IF Truthy(FirstOf(route.trafast)) THEN FirstOf(route.trafast)
    ELSE IF Truthy(FirstOf(route.traoptimal)) THEN FirstOf(route.traoptimal)
    ELSE IF Truthy(FirstOf(route.tracomfort)) THEN FirstOf(route.tracomfort)
    ELSE FirstOf(route.trainormal)

\* The binary exponent e of the positive quotient p / q: 2^e <= p/q < 2^(e+1).
RECURSIVE BinaryExponent(_, _)
BinaryExponent(p, q) ==
    IF p >= 2 * q THEN BinaryExponent(p, 2 * q) + 1
    ELSE IF p < q THEN BinaryExponent(2 * p, q) - 1
    ELSE 0

\* 2^j modulo 5
Pow2Mod5(j) == <<1, 2, 4, 3>>[(j % 4) + 1]

\* meters / 1000 for meters = 100k + 50, as the double the division gives,
\* is not below the decimal value k/10 + 0.05.  The quotient is n/20 with n
\* odd; scaled to 53 integer bits it is n * 2^(50 - e) / 5, and the
\* division rounds it up when the remainder modulo 5 is 3 or 4.  It is
\* exact when 5 divides n.
HalfwayNotBelow(meters) ==
    LET n == meters \div 50
        e == BinaryExponent(n, 20)
    IN  \/ n % 5 = 0
        \/ ((n % 5) * Pow2Mod5(50 - e)) % 5 >= 3

\* A toFixed(1) that cuts the digits after the first decimal off.
KilometersTruncated(meters) ==
    LET k == meters \div 100
    IN  NatToString(k \div 10) \o <<".", Digits[(k % 10) + 1]>>

\* (meters / 1000).toFixed(1) for a whole number of meters: the tenth of a
\* kilometer nearest to the double, the larger one when the double lies
\* halfway.
KilometersFixed1(meters) ==
    LET k == IF meters % 100 = 50 /\ ~HalfwayNotBelow(meters)
             THEN meters \div 100
             ELSE (meters + 50) \div 100
    IN  NatToString(k \div 10) \o <<".", Digits[(k % 10) + 1]>>

\* Math.round(ms / 60000)
MinutesRounded(ms) == (ms + 30000) \div 60000

\* n.toLocaleString() for a natural number: groups of three digits.
RECURSIVE LocaleString(_)
LocaleString(n) ==
    IF n < 1000 THEN NatToString(n)
    ELSE LET low == n % 1000
         IN  LocaleString(n \div 1000) \o <<",">>
             \o (IF low < 10 THEN <<"0", "0">> ELSE IF low < 100 THEN <<"0">> ELSE <<>>)
             \o NatToString(low)

\* fare ? `${fare.toLocaleString()}won` : "0won"
WonText(fare) ==
    IF Truthy(fare)
    THEN (IF fare.t = "number" THEN LocaleString(fare.n \div 10) ELSE StringOf(fare))
         \o <<"won">>
    ELSE <<"0won">>

DirectionsText(summary) ==
    <<"Directions result", "\n\n", "From: ">> \o StringOf(summary.start.location)
    \o <<"\n", "To: ">> \o StringOf(summary.goal.location)
    \o <<"\n\n", "Distance: ">> \o KilometersFixed1(summary.distance.n \div 10)
    \o <<"km", "\n", "Duration: ">>
    \o NatToString(MinutesRounded(summary.duration.n \div 10))
    \o <<"min", "\n", "Toll: ">> \o WonText(summary.tollFare)
    \o <<"\n", "Fuel: ">> \o WonText(summary.fuelPrice)

\* const route = data.route || {}
RouteOf(data) == IF Truthy(data.route) THEN data.route ELSE NoRoute

\* A handler that reads the summary without testing that a route was
\* found.
DirectionsAfterRouteUnguarded(a, loc, c) ==
    IF c.thrown THEN Raise(c.message)
    ELSE IF Nullish(c.v) THEN Raise(NullPropertyError)
    ELSE The({ IF Nullish(best) THEN Raise(NullPropertyError)
               ELSE IF Nullish(best.summary) THEN Raise(NullPropertyError)
               ELSE Return(<<TextItem(DirectionsText(best.summary))>>) :
               best \in {BestRoute(RouteOf(c.v), a.option)} })

DirectionsAfterRoute(a, loc, c) ==
    IF c.thrown THEN Raise(c.message)
    ELSE IF Nullish(c.v) THEN Raise(NullPropertyError)
    ELSE The({ IF ~Truthy(best)
               THEN Return(<<TextItem(<<RouteNotFound>>)>>)
               ELSE IF Nullish(best.summary) THEN Raise(NullPropertyError)
               ELSE Return(<<TextItem(DirectionsText(best.summary))>>) :
               best \in {BestRoute(RouteOf(c.v), a.option)} })

-----------------------------------------------------------------------------
(* naver_geocode *)

GeocodeBegin(a) == Await("geocode", NoLocals, GeocodeRequest(a.address))

\* A text that lists the coordinates longitude first.
GeocodeTextSwapped(cand) ==
    <<"Address: ">> \o StringOf(Or(cand.roadAddress, cand.jibunAddress))
    \o <<"\n", "Coordinates: ">> \o StringOf(cand.x) \o <<",", " ">>
    \o StringOf(cand.y) \o <<" (lat, lng)">>

GeocodeText(cand) ==
    <<"Address: ">> \o StringOf(Or(cand.roadAddress, cand.jibunAddress))
    \o <<"\n", "Coordinates: ">> \o StringOf(cand.y) \o <<",", " ">>
    \o StringOf(cand.x) \o <<" (lat, lng)">>

\* A handler that reads addresses[0] without the test for no candidates.
GeocodeAfterUnguarded(a, c) ==
    IF c.thrown THEN Raise(c.message)
    ELSE IF Nullish(c.v) THEN Raise(NullPropertyError)
    ELSE IF ~HasLength(c.v.addresses) THEN Raise(NullPropertyError)
    ELSE IF Nullish(c.v.addresses.a[1]) THEN Raise(NullPropertyError)
    ELSE Return(<<TextItem(GeocodeText(c.v.addresses.a[1]))>>)

GeocodeAfter(a, c) ==
    IF c.thrown THEN Raise(c.message)
        ELSE IF Nullish(c.v) THEN Raise(NullPropertyError)
        ELSE IF ~HasLength(c.v.addresses)
             THEN Return(<<TextItem(<<AddressNotFound>>)>>)
        ELSE IF Nullish(c.v.addresses.a[1]) THEN Raise(NullPropertyError)
        ELSE Return(<<TextItem(GeocodeText(c.v.addresses.a[1]))>>)

-----------------------------------------------------------------------------
(* naver_reverse_geocode *)

\* coords written in the order of the input.
ReverseCoordsUnswapped(lat, lng) ==
    StringOf(Num(lat)) \o <<",">> \o StringOf(Num(lng))

\* coords: `${lng},${lat}`
ReverseCoords(lat, lng) == StringOf(Num(lng)) \o <<",">> \o StringOf(Num(lat))

ReverseRequest(a) ==
    Request(ReverseEndpoint,
            <<<<"coords", Str(ReverseCoords(a.lat, a.lng))>>,
              <<"output", Str(<<"json">>)>>>>,
            FALSE)

ReverseBegin(a) == Await("reverse", NoLocals, ReverseRequest(a))

ReverseText(a, first) ==
    <<"Coordinates: ">> \o StringOf(Num(a.lat)) \o <<",", " ">>
    \o StringOf(Num(a.lng)) \o <<"\n", "Address: ">> \o StringOf(first.text)

ReverseAfter(a, c) ==
    IF c.thrown THEN Raise(c.message)
        ELSE IF Nullish(c.v) THEN Raise(NullPropertyError)
        ELSE IF ~HasLength(c.v.results)
             THEN Return(<<TextItem(<<CoordinateAddressNotFound>>)>>)
        ELSE IF Nullish(c.v.results.a[1]) THEN Raise(NullPropertyError)
        ELSE Return(<<TextItem(ReverseText(a, c.v.results.a[1]))>>)

-----------------------------------------------------------------------------
(* naver_static_map *)

Base64Alphabet ==
    <<"A", "B", "C", "D", "E", "F", "G", "H", "I", "J", "K", "L", "M",
      "N", "O", "P", "Q", "R", "S", "T", "U", "V", "W", "X", "Y", "Z",
      "a", "b", "c", "d", "e", "f", "g", "h", "i", "j", "k", "l", "m",
      "n", "o", "p", "q", "r", "s", "t", "u", "v", "w", "x", "y", "z",
      "0", "1", "2", "3", "4", "5", "6", "7", "8", "9", "+", "/">>

Sextet(n) == Base64Alphabet[n + 1]

\* An encoder that drops the bytes after the last whole group of three.
RECURSIVE Base64WholeGroups(_)
Base64WholeGroups(b) ==
    IF Len(b) < 3 THEN <<>>
    ELSE <<Sextet(b[1] \div 4),
           Sextet((b[1] % 4) * 16 + b[2] \div 16),
           Sextet((b[2] % 16) * 4 + b[3] \div 64),
           Sextet(b[3] % 64)>>
         \o Base64WholeGroups(SubSeq(b, 4, Len(b)))

\* Buffer.from(bytes).toString("base64")
RECURSIVE Base64(_)
Base64(b) ==
    IF Len(b) = 0 THEN <<>>
    ELSE IF Len(b) = 1
         THEN <<Sextet(b[1] \div 4), Sextet((b[1] % 4) * 16), "=", "=">>
    ELSE IF Len(b) = 2
         THEN <<Sextet(b[1] \div 4),
                Sextet((b[1] % 4) * 16 + b[2] \div 16),
                Sextet((b[2] % 16) * 4), "=">>
    ELSE <<Sextet(b[1] \div 4),
           Sextet((b[1] % 4) * 16 + b[2] \div 16),
           Sextet((b[2] % 16) * 4 + b[3] \div 64),
           Sextet(b[3] % 64)>>
         \o Base64(SubSeq(b, 4, Len(b)))

RasterRequest(a, loc) ==
    Request(RasterEndpoint,
            <<<<"center", Str(loc.centerCoords)>>,
              <<"level", Num(a.level)>>,
              <<"w", Num(a.w)>>,
              <<"h", Num(a.h)>>,
              <<"format", Str(<<a.format>>)>>>>,
            TRUE)

\* z.number().min(lo).max(hi).default(d), bounds in tenths
NumberInRange(v, lo, hi) ==
    v.t = "undefined" \/ (v.t = "number" /\ v.n >= lo /\ v.n <= hi)

\* .default(d)
WithDefault(v, d) == IF v.t = "undefined" THEN d ELSE v

\* The input schema of naver_static_map accepts the input.
StaticSchemaAccepts(in) ==
    /\ in.center.t = "string"
    /\ NumberInRange(in.level, 10, 200)
    /\ NumberInRange(in.w, 10, 12800)
    /\ NumberInRange(in.h, 10, 12800)
    /\ in.format.t = "undefined"
         \/ (in.format.t = "string" /\ in.format.s \in {<<"png">>, <<"jpeg">>})

\* The parsed input the handler is called with.
StaticParsed(in) ==
    [tool |-> "naver_static_map",
     center |-> in.center.s,
     level |-> WithDefault(in.level, Num(60)).n,
     w |-> WithDefault(in.w, Num(4000)).n,
     h |-> WithDefault(in.h, Num(4000)).n,
     format |-> WithDefault(in.format, Str(<<"png">>)).s[1]]

StaticBegin(a) ==
    LET loc == [NoLocals EXCEPT !.centerCoords = a.center]
    IN  IF ~Classified(a.center)
        THEN Await("centerGeo", loc, GeocodeRequest(a.center))
        ELSE Await("raster", loc, RasterRequest(a, loc))

StaticAfterCenterGeo(a, loc, c) ==
    IF c.thrown THEN Raise(c.message)
        ELSE IF Nullish(c.v) THEN Raise(NullPropertyError)
        ELSE IF ~HasLength(c.v.addresses) THEN Raise(<<NoGeocodingResult>>)
        ELSE IF Nullish(c.v.addresses.a[1]) THEN Raise(NullPropertyError)
        ELSE LET loc2 == [loc EXCEPT !.centerCoords =
                              StringOf(c.v.addresses.a[1].x) \o <<",">>
                              \o StringOf(c.v.addresses.a[1].y)]
             IN  Await("raster", loc2, RasterRequest(a, loc2))

StaticCaption(a, loc) ==
    <<"Static map (center: ">> \o loc.centerCoords \o <<", level: ">>
    \o StringOf(Num(a.level)) \o <<", size: ">> \o StringOf(Num(a.w))
    \o <<"x">> \o StringOf(Num(a.h)) \o <<")">>

\* A data URI that says png whatever format was fetched.
DataUriAlwaysPng(format, bytes) ==
    <<"data:image/", "png", ";base64,">> \o Base64(bytes)

DataUri(format, bytes) ==
    <<"data:image/", format, ";base64,">> \o Base64(bytes)

StaticAfterRaster(a, loc, c) ==
    IF c.thrown THEN Raise(c.message)
        ELSE Return(<<ImageItem(DataUri(a.format, c.v)),
                      TextItem(StaticCaption(a, loc))>>)

-----------------------------------------------------------------------------
(* Tool inputs and provider outcomes the runs draw from *)

MaxCandidates == 2

MaxBytes == 3

\* "127.0,37.5"
SeoulCoords == <<"1", "2", "7", ".", "0", ",", "3", "7", ".", "5">>

\* "129.0, 35.1"
BusanCoords == <<"1", "2", "9", ".", "0", ",", " ", "3", "5", ".", "1">>

\* A place name
SeoulName == <<"S", "e", "o", "u", "l">>

InputStrings == {SeoulCoords, BusanCoords, SeoulName}

Options == {"trafast", "tracomfort", "traoptimal", "trainormal"}

WaypointInputs == {Undefined, Str(<<>>), Str(<<"1", "2", "8", ",", "3", "6">>)}

DirectionsInputs ==
    [tool : {"naver_directions"}, start : InputStrings, goal : InputStrings,
     option : Options, waypoints : WaypointInputs]

GeocodeInputs == [tool : {"naver_geocode"}, address : InputStrings]

ReverseInputs ==
    [tool : {"naver_reverse_geocode"}, lat : {375, -900}, lng : {1270, -1800}]

\* What a caller may pass to naver_static_map, before the schema has seen it.
StaticInputs ==
    [center : {Str(c) : c \in InputStrings} \cup {Undefined},
     level : {Undefined, Num(200), Num(65), Num(9), Num(201)},
     w : {Undefined, Num(12800), Num(12805), Num(0)},
     h : {Num(4000), Str(<<"4", "0", "0">>)},
     format : {Undefined, Str(<<"jpeg">>), Str(<<"gif">>)}]

Candidate(x, y, road, jibun) ==
    [t |-> "object", x |-> x, y |-> y, roadAddress |-> road,
     jibunAddress |-> jibun]

FirstCandidates ==
    { Candidate(Str(<<"1", "2", "7", ".", "0">>), Str(<<"3", "7", ".", "5">>),
                Str(<<>>), Str(<<"Yeoksam-dong">>)),
      Candidate(Num(1270), Num(375), Str(<<"Teheran-ro">>), Undefined),
      Candidate(Str(<<"1", "2", "9", ".", "0">>), Str(<<"3", "5", ".", "1">>),
                Undefined, Str(<<"Jung-gu">>)),
      Candidate(Undefined, Undefined, Undefined, Undefined) }

LaterCandidate ==
    Candidate(Str(<<"1", "2", "6", ".", "5">>), Str(<<"3", "3", ".", "4">>),
              Str(<<"Jeju-ro">>), Str(<<"Jeju">>))

\* Lists of one to MaxCandidates candidates.
CandidateLists ==
    { <<c>> \o [j \in 1..n |-> LaterCandidate] :
        c \in FirstCandidates, n \in 0..(MaxCandidates - 1) }

GeocodeBody(addresses) == [t |-> "object", addresses |-> addresses]

GeocodeBodies ==
    {Null, GeocodeBody(Undefined), GeocodeBody(Arr(<<>>)), GeocodeBody(Arr(<<Null>>))}
    \cup {GeocodeBody(Arr(l)) : l \in CandidateLists}

Success(body) == Response(200, <<"OK">>, body)

Forbidden == Response(403, <<"Forbidden">>, RawBody(<<>>))

ServerError == Response(500, <<"Internal Server Error">>, RawBody(<<>>))

\* Outcomes that are no parsed JSON value.
Failures == {Rejected, Forbidden, ServerError, Success(RawBody(<<60>>))}

GeocodeOutcomes == Failures \cup {Success(JsonBody(b)) : b \in GeocodeBodies}

Place(location) == [t |-> "object", location |-> location]

Summary(distance, duration, tollFare, fuelPrice) ==
    [t |-> "object", distance |-> Num(distance * 10),
     duration |-> Num(duration * 10), tollFare |-> tollFare,
     fuelPrice |-> fuelPrice, start |-> Place(Str(SeoulCoords)),
     goal |-> Place(Str(BusanCoords))]

RouteEntry(summary) == [t |-> "object", summary |-> summary]

\* The first route the provider lists under each profile.
ProfileRoute(profile) ==
    CASE profile = "trafast" ->
           RouteEntry(Summary(12300, 1230000, Num(12000), Num(23450)))
      [] profile = "traoptimal" ->
           RouteEntry(Summary(15000, 900000, Num(0), Undefined))
      [] profile = "tracomfort" ->
           RouteEntry(Summary(20049, 1529999, Undefined, Num(1234560)))
      [] OTHER ->
           RouteEntry(Summary(999, 29999, Num(9990), Num(10000000)))

LaterRoute == RouteEntry(Summary(77700, 7770000, Undefined, Undefined))

\* The list under a profile: populated or not, in one of two shapes.
ProfileList(profile, populated, dense) ==
    IF profile \in populated
    THEN IF dense THEN Arr(<<ProfileRoute(profile), LaterRoute>>)
         ELSE Arr(<<ProfileRoute(profile)>>)
    ELSE IF dense THEN Arr(<<>>) ELSE Undefined

RouteObject(populated, dense) ==
    [t |-> "object",
     trafast    |-> ProfileList("trafast", populated, dense),
     traoptimal |-> ProfileList("traoptimal", populated, dense),
     tracomfort |-> ProfileList("tracomfort", populated, dense),
     trainormal |-> ProfileList("trainormal", populated, dense)]

DirectionsBody(route) == [t |-> "object", route |-> route]

DirectionsBodies ==
    {Null, DirectionsBody(Undefined), DirectionsBody(Null),
     DirectionsBody([NoRoute EXCEPT !.trafast = Arr(<<RouteEntry(Undefined)>>)])}
    \cup {DirectionsBody(RouteObject(p, d)) : p \in SUBSET Options, d \in BOOLEAN}

DirectionsOutcomes ==
    Failures \cup {Success(JsonBody(b)) : b \in DirectionsBodies}

ReverseResult(text) == [t |-> "object", text |-> text]

ReverseBody(results) == [t |-> "object", results |-> results]

ReverseBodies ==
    {Null, ReverseBody(Undefined), ReverseBody(Arr(<<>>)), ReverseBody(Arr(<<Null>>)),
     ReverseBody(Arr(<<ReverseResult(Undefined)>>))}
    \cup {ReverseBody(Arr(<<ReverseResult(Str(<<"Gangnam-gu">>))>>
                          \o [j \in 1..n |-> ReverseResult(Str(<<"Jeju">>))])) :
            n \in 0..(MaxCandidates - 1)}

ReverseOutcomes == Failures \cup {Success(JsonBody(b)) : b \in ReverseBodies}

ByteValues == {0, 77, 255}

ByteStrings == UNION {[1..n -> ByteValues] : n \in 0..MaxBytes}

RasterOutcomes ==
    {Rejected, Forbidden, ServerError} \cup {Success(RawBody(b)) : b \in ByteStrings}

Configs ==
    [NAVER_CLIENT_ID : {"client-a", "client-b"}, NAVER_CLIENT_SECRET : {"secret-a"}]

-----------------------------------------------------------------------------
(* Server runs *)

Invocations == {1}

NoArgs == [tool |-> "none"]

NoResult == [kind |-> "none"]

Returned(content) == [kind |-> "returned", content |-> content]

\* An exception that left the handler and reached the protocol runtime.
Escaped(message) == [kind |-> "escaped", message |-> message]

\* A server whose handlers keep their coordinates in one variable of the
\* enclosing function instead of a variable of the call.
ApplySharedLocals(i, r) ==
    /\ pc' = [pc EXCEPT ![i] = IF r.k = "await" THEN r.pc ELSE "done"]
    /\ local' = IF r.k = "await" THEN [j \in DOMAIN local |-> r.local] ELSE local
    /\ sent' = [sent EXCEPT ![i] = IF r.k = "await" THEN Append(@, r.req) ELSE @]
    /\ result' = [result EXCEPT ![i] =
                    CASE r.k = "await"  -> NoResult
                      [] r.k = "return" -> Returned(r.content)
                      [] OTHER          -> Escaped(r.message)]

\* A handler that, instead of returning, waits for something that never
\* comes.
ApplyNeverReturning(i, r) ==
    /\ pc' = [pc EXCEPT ![i] = IF r.k = "await" THEN r.pc ELSE "hung"]
    /\ local' = [local EXCEPT ![i] = IF r.k = "await" THEN r.local ELSE @]
    /\ sent' = [sent EXCEPT ![i] = IF r.k = "await" THEN Append(@, r.req) ELSE @]
    /\ result' = result

\* What a step of the handler of invocation i leaves behind.
Apply(i, r) ==
    /\ pc' = [pc EXCEPT ![i] = IF r.k = "await" THEN r.pc ELSE "done"]
    /\ local' = [local EXCEPT ![i] = IF r.k = "await" THEN r.local ELSE @]
    /\ sent' = [sent EXCEPT ![i] = IF r.k = "await" THEN Append(@, r.req) ELSE @]
    /\ result' = [result EXCEPT ![i] =
                    CASE r.k = "await"  -> NoResult
                      [] r.k = "return" -> Returned(r.content)
                      [] OTHER          -> Escaped(r.message)]

\* The runtime calls a handler with validated input a; r is the handler's
\* first step.
Call(i, a, r) ==
    /\ args' = [args EXCEPT ![i] = a]
    /\ got' = got
    /\ Apply(i, r)
    /\ UNCHANGED <<config, revision, window, clsVars>>

\* The request the handler is suspended on has settled with outcome o; r is
\* the handler's next step.
Resume(i, o, r) ==
    /\ got' = [got EXCEPT ![i] = Append(@, o)]
    /\ Apply(i, r)
    /\ UNCHANGED <<args, config, revision, window, clsVars>>

CallDirections(i, a) ==
    /\ pc[i] = "idle"
    /\ \E r \in {DirectionsBegin(a)} : Call(i, a, TryCatch(r))

StartGeocoded(i, o) ==
    /\ pc[i] = "startGeo"
    /\ \E c \in {Settle(o, FALSE)} :
         \E r \in {DirectionsAfterStartGeo(args[i], local[i], c)} :
           Resume(i, o, TryCatch(r))

GoalGeocoded(i, o) ==
    /\ pc[i] = "goalGeo"
    /\ \E c \in {Settle(o, FALSE)} :
         \E r \in {DirectionsAfterGoalGeo(args[i], local[i], c)} :
           Resume(i, o, TryCatch(r))

RouteFetched(i, o) ==
    /\ pc[i] = "route"
    /\ \E c \in {Settle(o, FALSE)} :
         \E r \in {DirectionsAfterRoute(args[i], local[i], c)} :
           Resume(i, o, TryCatch(r))

CallGeocode(i, a) ==
    /\ pc[i] = "idle"
    /\ \E r \in {GeocodeBegin(a)} : Call(i, a, TryCatch(r))

AddressGeocoded(i, o) ==
    /\ pc[i] = "geocode"
    /\ \E c \in {Settle(o, FALSE)} :
         \E r \in {GeocodeAfter(args[i], c)} : Resume(i, o, TryCatch(r))

CallReverse(i, a) ==
    /\ pc[i] = "idle"
    /\ \E r \in {ReverseBegin(a)} : Call(i, a, TryCatch(r))

CoordsReversed(i, o) ==
    /\ pc[i] = "reverse"
    /\ \E c \in {Settle(o, FALSE)} :
         \E r \in {ReverseAfter(args[i], c)} : Resume(i, o, TryCatch(r))

\* The schema layer turned the input down: the handler is not called.
Refuse(i, in) ==
    /\ pc' = [pc EXCEPT ![i] = "rejected"]
    /\ args' = [args EXCEPT ![i] = [tool |-> "naver_static_map", input |-> in]]
    /\ result' = [result EXCEPT ![i] = [kind |-> "invalid"]]
    /\ UNCHANGED <<local, sent, got, config, revision, window, clsVars>>

\* The entry file registers no static map tool.  The input goes through
\* the tool's schema before the handler is called.
CallStatic(i, in) ==
    /\ pc[i] = "idle"
    /\ revision = "part_001"
    /\ IF StaticSchemaAccepts(in)
       THEN \E a \in {StaticParsed(in)} :
              \E r \in {StaticBegin(a)} : Call(i, a, TryCatch(r))
       ELSE Refuse(i, in)

CenterGeocoded(i, o) ==
    /\ pc[i] = "centerGeo"
    /\ \E c \in {Settle(o, FALSE)} :
         \E r \in {StaticAfterCenterGeo(args[i], local[i], c)} :
           Resume(i, o, TryCatch(r))

RasterFetched(i, o) ==
    /\ pc[i] = "raster"
    /\ \E c \in {Settle(o, TRUE)} :
         \E r \in {StaticAfterRaster(args[i], local[i], c)} :
           Resume(i, o, TryCatch(r))

\* The runtime has taken the result; the invocation's values are gone.
Dispose(i) ==
    /\ pc[i] \in {"done", "rejected"}
    /\ pc' = [pc EXCEPT ![i] = "idle"]
    /\ args' = [args EXCEPT ![i] = NoArgs]
    /\ local' = [local EXCEPT ![i] = NoLocals]
    /\ sent' = [sent EXCEPT ![i] = <<>>]
    /\ got' = [got EXCEPT ![i] = <<>>]
    /\ result' = [result EXCEPT ![i] = NoResult]
    /\ UNCHANGED <<config, revision, window, clsVars>>

ClsOff ==
    /\ str = <<>>
    /\ genParts = <<>>
    /\ clsPc = "off"
    /\ clsHard = FALSE
    /\ clsEntry = FALSE

SrvInit(rev, windows) ==
    /\ config \in Configs
    /\ revision = rev
    /\ window \in windows
    /\ pc = [i \in Invocations |-> "idle"]
    /\ args = [i \in Invocations |-> NoArgs]
    /\ local = [i \in Invocations |-> NoLocals]
    /\ sent = [i \in Invocations |-> <<>>]
    /\ got = [i \in Invocations |-> <<>>]
    /\ result = [i \in Invocations |-> NoResult]
    /\ ClsOff

\* The canonical revision on a host without a global window.
Init == SrvInit("part_001", {<<>>})

Next ==
    \/ \E i \in Invocations, a \in DirectionsInputs : CallDirections(i, a)
    \/ \E i \in Invocations, o \in GeocodeOutcomes : StartGeocoded(i, o)
    \/ \E i \in Invocations, o \in GeocodeOutcomes : GoalGeocoded(i, o)
    \/ \E i \in Invocations, o \in DirectionsOutcomes : RouteFetched(i, o)
    \/ \E i \in Invocations, a \in GeocodeInputs : CallGeocode(i, a)
    \/ \E i \in Invocations, o \in GeocodeOutcomes : AddressGeocoded(i, o)
    \/ \E i \in Invocations, a \in ReverseInputs : CallReverse(i, a)
    \/ \E i \in Invocations, o \in ReverseOutcomes : CoordsReversed(i, o)
    \/ \E i \in Invocations, in \in StaticInputs : CallStatic(i, in)
    \/ \E i \in Invocations, o \in GeocodeOutcomes : CenterGeocoded(i, o)
    \/ \E i \in Invocations, o \in RasterOutcomes : RasterFetched(i, o)
    \/ \E i \in Invocations : Dispose(i)

Spec == Init /\ [][Next]_vars

\* The entry file: three tools, on a host with or without a global window.
InitEntry == SrvInit("index.ts", {<<>>, <<"localhost">>})

NextEntry ==
    \/ \E i \in Invocations, a \in DirectionsInputs : CallDirections(i, a)
    \/ \E i \in Invocations, o \in GeocodeOutcomes : StartGeocoded(i, o)
    \/ \E i \in Invocations, o \in GeocodeOutcomes : GoalGeocoded(i, o)
    \/ \E i \in Invocations, o \in DirectionsOutcomes : RouteFetched(i, o)
    \/ \E i \in Invocations, a \in GeocodeInputs : CallGeocode(i, a)
    \/ \E i \in Invocations, o \in GeocodeOutcomes : AddressGeocoded(i, o)
    \/ \E i \in Invocations, a \in ReverseInputs : CallReverse(i, a)
    \/ \E i \in Invocations, o \in ReverseOutcomes : CoordsReversed(i, o)
    \/ \E i \in Invocations : Dispose(i)

SpecEntry == InitEntry /\ [][NextEntry]_vars

-----------------------------------------------------------------------------
(* Concurrent runs: several invocations interleave at their awaits.        *)

MaxConcurrent == 2

Concurrent == 1..MaxConcurrent

ConcurrentDirectionsInputs ==
    { [tool |-> "naver_directions", start |-> SeoulName, goal |-> BusanCoords,
       option |-> "trafast", waypoints |-> Undefined],
      [tool |-> "naver_directions", start |-> SeoulCoords, goal |-> SeoulName,
       option |-> "traoptimal", waypoints |-> Undefined] }

ConcurrentGeocodeInputs == {[tool |-> "naver_geocode", address |-> SeoulName]}

ConcurrentReverseInputs ==
    {[tool |-> "naver_reverse_geocode", lat |-> 375, lng |-> 1270]}

ConcurrentStaticInputs ==
    { [center |-> Str(SeoulName), level |-> lv, w |-> Undefined,
       h |-> Num(4000), format |-> Undefined] : lv \in {Undefined, Num(201)} }

ConcurrentGeocodeOutcomes ==
    { Success(JsonBody(GeocodeBody(Arr(<<
          Candidate(Num(1270), Num(375), Str(<<"Teheran-ro">>), Undefined)>>)))),
      Success(JsonBody(GeocodeBody(Arr(<<
          Candidate(Num(1290), Num(351), Undefined, Str(<<"Jung-gu">>))>>)))),
      Forbidden }

ConcurrentDirectionsOutcomes ==
    {Success(JsonBody(DirectionsBody(RouteObject({"trafast"}, FALSE)))), Forbidden}

ConcurrentReverseOutcomes ==
    { Success(JsonBody(ReverseBody(Arr(<<ReverseResult(Str(<<"Gangnam-gu">>))>>)))),
      Rejected }

ConcurrentRasterOutcomes == {Success(RawBody(<<77>>)), ServerError}

InitConcurrent ==
    /\ config \in Configs
    /\ revision = "part_001"
    /\ window = <<>>
    /\ pc = [i \in Concurrent |-> "idle"]
    /\ args = [i \in Concurrent |-> NoArgs]
    /\ local = [i \in Concurrent |-> NoLocals]
    /\ sent = [i \in Concurrent |-> <<>>]
    /\ got = [i \in Concurrent |-> <<>>]
    /\ result = [i \in Concurrent |-> NoResult]
    /\ ClsOff

NextConcurrent ==
    \/ \E i \in Concurrent, a \in ConcurrentDirectionsInputs : CallDirections(i, a)
    \/ \E i \in Concurrent, o \in ConcurrentGeocodeOutcomes : StartGeocoded(i, o)
    \/ \E i \in Concurrent, o \in ConcurrentGeocodeOutcomes : GoalGeocoded(i, o)
    \/ \E i \in Concurrent, o \in ConcurrentDirectionsOutcomes : RouteFetched(i, o)
    \/ \E i \in Concurrent, a \in ConcurrentGeocodeInputs : CallGeocode(i, a)
    \/ \E i \in Concurrent, o \in ConcurrentGeocodeOutcomes : AddressGeocoded(i, o)
    \/ \E i \in Concurrent, a \in ConcurrentReverseInputs : CallReverse(i, a)
    \/ \E i \in Concurrent, o \in ConcurrentReverseOutcomes : CoordsReversed(i, o)
    \/ \E i \in Concurrent, in \in ConcurrentStaticInputs : CallStatic(i, in)
    \/ \E i \in Concurrent, o \in ConcurrentGeocodeOutcomes : CenterGeocoded(i, o)
    \/ \E i \in Concurrent, o \in ConcurrentRasterOutcomes : RasterFetched(i, o)
    \/ \E i \in Concurrent : Dispose(i)

SpecConcurrent == InitConcurrent /\ [][NextConcurrent]_vars

\* The request invocation i is suspended on completes, with any of the
\* outcomes of the concurrent runs.
RequestCompletes(i) ==
    \/ \E o \in ConcurrentGeocodeOutcomes : StartGeocoded(i, o)
    \/ \E o \in ConcurrentGeocodeOutcomes : GoalGeocoded(i, o)
    \/ \E o \in ConcurrentDirectionsOutcomes : RouteFetched(i, o)
    \/ \E o \in ConcurrentGeocodeOutcomes : AddressGeocoded(i, o)
    \/ \E o \in ConcurrentReverseOutcomes : CoordsReversed(i, o)
    \/ \E o \in ConcurrentGeocodeOutcomes : CenterGeocoded(i, o)
    \/ \E o \in ConcurrentRasterOutcomes : RasterFetched(i, o)

\* Concurrent runs in which every request issued completes in the end.
SpecLive ==
    /\ InitConcurrent
    /\ [][NextConcurrent]_vars
    /\ \A i \in Concurrent : WF_vars(RequestCompletes(i))

-----------------------------------------------------------------------------
(* Gateway runs: makeNaverAPIRequest called with any parameter map, next   *)
(* to the directions tool that builds its own.                             *)

MaxParams == 3

ParamKeys == <<"start", "goal", "waypoints", "option", "level">>

ParamValues == {Undefined, Null, Str(<<>>), Str(<<"a", " ", "b">>), Num(65)}

\* Parameter maps of up to MaxParams keys, in insertion order.
ParamMaps ==
    UNION { { [k \in 1..n |-> <<ParamKeys[k], vals[k]>>] : vals \in [1..n -> ParamValues] } :
            n \in 0..MaxParams }

GatewayOutcomes == {Rejected, Forbidden, Success(RawBody(<<77>>)), Success(JsonBody(Null))}

\* makeNaverAPIRequest(endpoint, params, expectBinary) up to its fetch.
CallGateway(i, endpoint, params, expectBinary) ==
    /\ pc[i] = "idle"
    /\ pc' = [pc EXCEPT ![i] = "fetch"]
    /\ args' = [args EXCEPT ![i] = [tool |-> "makeNaverAPIRequest",
                                    endpoint |-> endpoint, params |-> params,
                                    expectBinary |-> expectBinary]]
    /\ sent' = [sent EXCEPT ![i] = <<Request(endpoint, params, expectBinary)>>]
    /\ UNCHANGED <<local, got, result, config, revision, window, clsVars>>

\* makeNaverAPIRequest from the moment its fetch settles.  A binary read
\* is answered with bytes.
GatewaySettled(i, o) ==
    /\ pc[i] = "fetch"
    /\ o.kind = "response" /\ Ok(o) /\ args[i].expectBinary => o.body.k = "raw"
    /\ \E c \in {Settle(o, args[i].expectBinary)} :
         result' = [result EXCEPT ![i] =
                      IF c.thrown THEN [kind |-> "thrown", message |-> c.message]
                      ELSE [kind |-> "resolved", v |-> c.v]]
    /\ pc' = [pc EXCEPT ![i] = "done"]
    /\ got' = [got EXCEPT ![i] = Append(@, o)]
    /\ UNCHANGED <<args, local, sent, config, revision, window, clsVars>>

NextGateway ==
    \/ \E i \in Invocations, e \in {GeocodeEndpoint, RasterEndpoint},
          ps \in ParamMaps, b \in BOOLEAN : CallGateway(i, e, ps, b)
    \/ \E i \in Invocations, o \in GatewayOutcomes : GatewaySettled(i, o)
    \/ \E i \in Invocations, a \in DirectionsInputs : CallDirections(i, a)
    \/ \E i \in Invocations, o \in ConcurrentGeocodeOutcomes : StartGeocoded(i, o)
    \/ \E i \in Invocations, o \in ConcurrentGeocodeOutcomes : GoalGeocoded(i, o)
    \/ \E i \in Invocations, o \in ConcurrentDirectionsOutcomes : RouteFetched(i, o)
    \/ \E i \in Invocations : Dispose(i)

SpecGateway == Init /\ [][NextGateway]_vars

-----------------------------------------------------------------------------
(* Summary runs: a directions call between two coordinates is answered     *)
(* with one route whose distance and duration vary.                        *)

MaxMeters == 1300

Distances == (0..MaxMeters) \cup {12350, 77750, 999950, 1000050}

Durations ==
    {0, 29999, 30000, 30001, 89999, 90000, 90001, 1230000, 1529999, 7770000}

SummaryInputs ==
    {[tool |-> "naver_directions", start |-> SeoulCoords, goal |-> BusanCoords,
      option |-> "trafast", waypoints |-> Undefined]}

SummaryOutcomes ==
    { Success(JsonBody(DirectionsBody(
          [NoRoute EXCEPT !.trafast =
               Arr(<<RouteEntry(Summary(d, t, Undefined, Num(15000)))>>)]))) :
        d \in Distances, t \in Durations }

NextSummary ==
    \/ \E i \in Invocations, a \in SummaryInputs : CallDirections(i, a)
    \/ \E i \in Invocations, o \in SummaryOutcomes : RouteFetched(i, o)
    \/ \E i \in Invocations : Dispose(i)

SpecSummary == Init /\ [][NextSummary]_vars

-----------------------------------------------------------------------------
(* Classifier runs: a string built from known pieces is classified.        *)

MaxParts == 3

\* Pieces: text, whether the text is one complete numeral, and its value in
\* tenths (infinite values carry inf).
Piece(text, num, inf, tenths) ==
    [text |-> text, num |-> num, inf |-> inf, tenths |-> tenths]

Pieces ==
    { Piece(<<"1", "8", "0">>, TRUE, FALSE, 1800),
      Piece(<<"-", "1", "8", "0">>, TRUE, FALSE, -1800),
      Piece(<<"1", "8", "0", ".", "5">>, TRUE, FALSE, 1805),
      Piece(<<"9", "0">>, TRUE, FALSE, 900),
      Piece(<<"-", "9", "0", ".", "0">>, TRUE, FALSE, -900),
      Piece(<<"9", "0", ".", "5">>, TRUE, FALSE, 905),
      Piece(<<"-", "9", "1">>, TRUE, FALSE, -910),
      Piece(<<"2", "0", "0">>, TRUE, FALSE, 2000),
      Piece(<<"3", "7", ".", "5">>, TRUE, FALSE, 375),
      Piece(<<"1", "e", "2">>, TRUE, FALSE, 1000),
      Piece(<<".", "5">>, TRUE, FALSE, 5),
      Piece(<<"I", "n", "f", "i", "n", "i", "t", "y">>, TRUE, TRUE, 1),
      Piece(<<"-", "I", "n", "f", "i", "n", "i", "t", "y">>, TRUE, TRUE, -1),
      Piece(<<"1", "2", "7", "a", "b", "c">>, FALSE, FALSE, 0),
      Piece(<<"3", "7", " ", "M", "a", "i", "n">>, FALSE, FALSE, 0),
      Piece(<<"a", "b", "c">>, FALSE, FALSE, 0),
      Piece(<<>>, FALSE, FALSE, 0) }

\* Blanks put before and after every piece.
Pads == { <<<<>>, <<>>>>, <<<<" ">>, <<>>>>, <<<<>>, <<"\t">>>>, <<<<" ">>, <<" ", "\n">>>> }

RECURSIVE Join(_, _)
Join(ps, pad) ==
    IF Len(ps) = 0 THEN <<>>
    ELSE LET one == pad[1] \o ps[1].text \o pad[2]
         IN  IF Len(ps) = 1 THEN one ELSE one \o <<",">> \o Join(Tail(ps), pad)

PieceLists == UNION { [1..n -> Pieces] : n \in 1..MaxParts }

SrvOff ==
    /\ config = [NAVER_CLIENT_ID |-> "", NAVER_CLIENT_SECRET |-> ""]
    /\ revision = "part_001"
    /\ window = <<>>
    /\ pc = <<>>
    /\ args = <<>>
    /\ local = <<>>
    /\ sent = <<>>
    /\ got = <<>>
    /\ result = <<>>

ClsInit ==
    /\ SrvOff
    /\ genParts \in PieceLists
    /\ \E pad \in Pads : str = Join(genParts, pad)
    /\ clsPc = "input"
    /\ clsHard = FALSE
    /\ clsEntry = FALSE

Classify ==
    /\ clsPc = "input"
    /\ clsPc' = "classified"
    /\ clsHard' = isCoordinate(str)
    /\ clsEntry' = isCoordinateEntry(str)
    /\ UNCHANGED <<str, genParts, srvVars>>

ClsNext == Classify

SpecClassifier == ClsInit /\ [][ClsNext]_vars

-----------------------------------------------------------------------------
(* Properties of the handlers *)

Done(i) == pc[i] = "done"

\* The outcomes invocation i has received so far, the last one first.
LastGot(i) == got[i][Len(got[i])]

IsFailedStatus(o) == o.kind = "response" /\ ~(o.status >= 200 /\ o.status <= 299)

\* The outcome is a success whose body parsed to a JSON object.
IsJsonObject(o) ==
    /\ o.kind = "response"
    /\ o.status = 200
    /\ o.body.k = "json"
    /\ o.body.v.t = "object"

OneText(text) == [kind |-> "returned", content |-> <<[type |-> "text", text |-> text]>>]

\* C1: whatever the provider does with the requests of an invocation, no
\* exception leaves the handler, and the result the handler returns holds
\* a text item: one text item, or an image item and a text item.
C1_NothingEscapes ==
    \A i \in DOMAIN pc :
        /\ result[i].kind # "escaped"
        /\ Done(i) =>
             /\ result[i].kind = "returned"
             /\ Len(result[i].content) \in {1, 2}
             /\ result[i].content[Len(result[i].content)].type = "text"
             /\ Len(result[i].content) = 2 => result[i].content[1].type = "image"

\* A static map call whose geocoding succeeded and whose image fetch was
\* rejected has returned a text.
C1_Witness ==
    \E i \in DOMAIN pc :
        /\ Done(i)
        /\ args[i].tool = "naver_static_map"
        /\ Len(got[i]) = 2
        /\ got[i][2].kind = "reject"
        /\ result[i].kind = "returned"
        /\ result[i].content[1].type = "text"

\* C2: in the canonical revision a request answered with HTTP 403 ends the
\* invocation, and the handler returns exactly one text item, "oryu
\* balsaeng: " followed by the gateway's message with 403 and the status
\* text.
C2_ForbiddenReported ==
    \A i \in DOMAIN pc : \A j \in 1..Len(got[i]) :
        (got[i][j].kind = "response" /\ got[i][j].status = 403) =>
            /\ Done(i)
            /\ j = Len(got[i])
            /\ result[i] = OneText(<<ErrorPrefix, ApiErrorLabel, "4", "0", "3", " ">>
                                   \o got[i][j].statusText)
            /\ Contains(result[i].content[1].text, <<"4", "0", "3">>)

\* A directions call was answered 403 on its second geocode request.
C2_Witness ==
    \E i \in DOMAIN pc :
        /\ Done(i)
        /\ args[i].tool = "naver_directions"
        /\ Len(got[i]) = 2
        /\ got[i][2].kind = "response"
        /\ got[i][2].status = 403
        /\ Contains(result[i].content[1].text, <<"4", "0", "3">>)

\* C3: in the entry file a request answered with a non-success status
\* ends in a text result "oryu balsaeng: ..." that holds the status code.
C3_EntryStatusReported ==
    \A i \in DOMAIN pc : \A j \in 1..Len(got[i]) :
        IsFailedStatus(got[i][j]) =>
            /\ Done(i)
            /\ result[i].kind = "returned"
            /\ Len(result[i].content) = 1
            /\ result[i].content[1].text[1] = ErrorPrefix
            /\ Contains(result[i].content[1].text, NatToString(got[i][j].status))

\* C4: a directions call whose start and goal are both classified as
\* coordinates issues no geocode request and one directions request, whose
\* start and goal parameters are the input strings.
C4_CoordinatesSkipGeocoding ==
    \A i \in DOMAIN pc :
        ( /\ args[i].tool = "naver_directions"
          /\ isCoordinate(args[i].start)
          /\ isCoordinate(args[i].goal) )
        => /\ Len(sent[i]) = 1
           /\ sent[i][1].path = "/map-direction/v1/driving"
           /\ sent[i][1].query[1] = <<"start", args[i].start>>
           /\ sent[i][1].query[2] = <<"goal", args[i].goal>>

\* Directions from "127.0,37.5" to "129.0, 35.1" have been answered.
C4_Witness ==
    \E i \in DOMAIN pc :
        /\ Done(i)
        /\ args[i].tool = "naver_directions"
        /\ args[i].start = SeoulCoords
        /\ args[i].goal = BusanCoords
        /\ Len(sent[i]) = 1
        /\ Len(got[i]) = 1

PriorityOrder == <<"trafast", "traoptimal", "tracomfort", "trainormal">>

Populated(route, k) ==
    route[PriorityOrder[k]].t = "array" /\ Len(route[PriorityOrder[k]].a) > 0

\* The place in PriorityOrder of the first populated list of the route.
FirstPopulated(route) ==
    CHOOSE k \in 1..4 : Populated(route, k) /\ \A m \in 1..(k - 1) : ~Populated(route, m)

\* The text the handler builds for a route summary.
ReportOf(entry) == OneText(DirectionsText(entry.summary))

\* C5: whatever option was requested, the directions handler reports the
\* first entry of the first populated list in the order trafast,
\* traoptimal, tracomfort, trainormal.
C5_FixedProfilePriority ==
    \A i \in DOMAIN pc :
        ( /\ Done(i)
          /\ args[i].tool = "naver_directions"
          /\ sent[i][Len(got[i])].path = "/map-direction/v1/driving"
          /\ IsJsonObject(LastGot(i))
          /\ LastGot(i).body.v.route.t = "object"
          /\ \E k \in 1..4 : Populated(LastGot(i).body.v.route, k) )
        => LET route == LastGot(i).body.v.route
               first == route[PriorityOrder[FirstPopulated(route)]].a[1]
           IN  first.summary.t = "object" => result[i] = ReportOf(first)

\* Only tracomfort is populated, trafast was requested, and the tracomfort
\* route is reported.
C5_Witness ==
    \E i \in DOMAIN pc :
        /\ Done(i)
        /\ args[i].tool = "naver_directions"
        /\ args[i].option = "trafast"
        /\ LastGot(i) = Success(JsonBody(DirectionsBody(RouteObject({"tracomfort"}, FALSE))))
        /\ result[i] = ReportOf(ProfileRoute("tracomfort"))
        /\ result[i] # ReportOf(ProfileRoute("trafast"))

\* C6: a geocode call answered with no candidates, the addresses list empty
\* or missing, returns exactly the text "jusoreul chajeul su eopsseumnida.".
C6_NoCandidatesNotFound ==
    \A i \in DOMAIN pc :
        ( /\ Done(i)
          /\ args[i].tool = "naver_geocode"
          /\ IsJsonObject(LastGot(i))
          /\ \/ LastGot(i).body.v.addresses.t = "undefined"
             \/ LastGot(i).body.v.addresses = [t |-> "array", a |-> <<>>] )
        => result[i] = OneText(<<AddressNotFound>>)

C6_Witness ==
    \E i \in DOMAIN pc :
        /\ Done(i)
        /\ args[i].tool = "naver_geocode"
        /\ LastGot(i) = Success(JsonBody(GeocodeBody(Arr(<<>>))))
        /\ result[i] = OneText(<<AddressNotFound>>)

\* A string field that is there and not empty.
Present(v) == v.t = "string" /\ v.s # <<>>

\* C7: a geocode call answered with candidates builds its text from the
\* first one: the road address if present, else the parcel address, then
\* the coordinates y before x.  Later candidates do not enter.
C7_FirstCandidateShown ==
    \A i \in DOMAIN pc :
        ( /\ Done(i)
          /\ args[i].tool = "naver_geocode"
          /\ IsJsonObject(LastGot(i))
          /\ LastGot(i).body.v.addresses.t = "array"
          /\ Len(LastGot(i).body.v.addresses.a) > 0
          /\ LastGot(i).body.v.addresses.a[1].t = "object" )
        => LET first == LastGot(i).body.v.addresses.a[1]
           IN  result[i] =
                 OneText(<<"Address: ">>
                         \o (IF Present(first.roadAddress)
                             THEN first.roadAddress.s
                             ELSE StringOf(first.jibunAddress))
                         \o <<"\n", "Coordinates: ">> \o StringOf(first.y)
                         \o <<",", " ">> \o StringOf(first.x)
                         \o <<" (lat, lng)">>)

\* The candidate {x: 127.0, y: 37.5, roadAddress: "Teheran-ro"}, followed by
\* another one, is shown as "Teheran-ro" and "37.5, 127".
C7_Witness ==
    \E i \in DOMAIN pc :
        /\ Done(i)
        /\ args[i].tool = "naver_geocode"
        /\ IsJsonObject(LastGot(i))
        /\ LastGot(i).body.v.addresses.t = "array"
        /\ Len(LastGot(i).body.v.addresses.a) = 2
        /\ result[i].kind = "returned"
        /\ Contains(result[i].content[1].text, <<"Teheran-ro">>)
        /\ Contains(result[i].content[1].text,
                    <<"3", "7", ".", "5", ",", " ", "1", "2", "7">>)

\* The decimal text of the latitudes and longitudes the runs use.
Shown(tenths) ==
    CASE tenths = 375   -> <<"3", "7", ".", "5">>
      [] tenths = -900  -> <<"-", "9", "0">>
      [] tenths = 1270  -> <<"1", "2", "7">>
      [] tenths = -1800 -> <<"-", "1", "8", "0">>

\* C8: the reverse geocode handler sends coords as "<lng>,<lat>", and when a
\* result came back its text shows the inputs as lat then lng, with the
\* text label of the first result.
C8_ReverseOrder ==
    \A i \in DOMAIN pc :
        args[i].tool = "naver_reverse_geocode" =>
            /\ Len(sent[i]) = 1
            /\ sent[i][1].path = "/map-reversegeocode/v2/gc"
            /\ sent[i][1].query[1] =
                 <<"coords", Shown(args[i].lng) \o <<",">> \o Shown(args[i].lat)>>
            /\ ( /\ Done(i)
                 /\ IsJsonObject(LastGot(i))
                 /\ LastGot(i).body.v.results.t = "array"
                 /\ Len(LastGot(i).body.v.results.a) > 0
                 /\ LastGot(i).body.v.results.a[1].t = "object" )
               => result[i] =
                    OneText(<<"Coordinates: ">> \o Shown(args[i].lat)
                            \o <<",", " ">> \o Shown(args[i].lng)
                            \o <<"\n", "Address: ">>
                            \o StringOf(LastGot(i).body.v.results.a[1].text))

\* reverse_geocode(lat 37.5, lng 127) came back with two results.
C8_Witness ==
    \E i \in DOMAIN pc :
        /\ Done(i)
        /\ args[i].tool = "naver_reverse_geocode"
        /\ args[i].lat = 375
        /\ args[i].lng = 1270
        /\ IsJsonObject(LastGot(i))
        /\ LastGot(i).body.v.results.t = "array"
        /\ Len(LastGot(i).body.v.results.a) = 2
        /\ Contains(result[i].content[1].text, <<"Gangnam-gu">>)

-----------------------------------------------------------------------------
(* Properties of the classifier *)

CommaCount(s) == Cardinality({i \in 1..Len(s) : s[i] = ","})

\* The piece is a finite numeral whose value lies in [lo, hi] tenths.
NumeralWithin(p, lo, hi) ==
    p.num /\ ~p.inf /\ p.tenths >= lo /\ p.tenths <= hi

\* C9: a string "a,b" with exactly one comma, a and b numerals that may be
\* surrounded by blanks, a in [-180,180] and b in [-90,90], bounds included,
\* is classified as a coordinate by the hardened isCoordinate.
C9_InRangePairAccepted ==
    ( /\ clsPc = "classified"
      /\ CommaCount(str) = 1
      /\ Len(genParts) = 2
      /\ NumeralWithin(genParts[1], -1800, 1800)
      /\ NumeralWithin(genParts[2], -900, 900) )
    => clsHard = TRUE

\* A padded pair on both bounds has been classified.
C9_Witness ==
    /\ clsPc = "classified"
    /\ Len(genParts) = 2
    /\ genParts[1].tenths = 1800
    /\ genParts[2].tenths = -900
    /\ Len(str) > Len(genParts[1].text) + Len(genParts[2].text) + 1
    /\ clsHard = TRUE

\* C10: a string that does not hold exactly one comma is never classified
\* as a coordinate by the hardened isCoordinate.
C10_NotOneCommaRejected ==
    (clsPc = "classified" /\ CommaCount(str) # 1) => clsHard = FALSE

\* The piece, once trimmed, is one complete finite numeral.
FiniteNumeral(p) == p.num /\ ~p.inf

\* C11: a string of two comma-separated parts of which one, once trimmed,
\* is not a complete finite numeral (empty, alphabetic, or a numeric prefix
\* followed by other characters) is not classified as a coordinate by the
\* hardened isCoordinate.
C11_IncompleteNumeralRejected ==
    ( /\ clsPc = "classified"
      /\ Len(genParts) = 2
      /\ (~FiniteNumeral(genParts[1]) \/ ~FiniteNumeral(genParts[2])) )
    => clsHard = FALSE

\* C12: a string "a,b" of two numerals whose first value lies outside
\* [-180,180] or whose second value lies outside [-90,90], infinite values
\* included, is not classified as a coordinate by the hardened isCoordinate.
C12_OutOfRangeRejected ==
    ( /\ clsPc = "classified"
      /\ Len(genParts) = 2
      /\ genParts[1].num
      /\ genParts[2].num
      /\ \/ ~NumeralWithin(genParts[1], -1800, 1800)
         \/ ~NumeralWithin(genParts[2], -900, 900) )
    => clsHard = FALSE

\* "200,37.5", with or without blanks, has been classified.
C12_Witness ==
    /\ clsPc = "classified"
    /\ Len(genParts) = 2
    /\ genParts[1].tenths = 2000
    /\ genParts[2].tenths = 375
    /\ clsHard = FALSE

-----------------------------------------------------------------------------
(* Properties of the static map *)

\* The value of a base64 digit (RFC 4648, section 4).
SextetValue(ch) == CHOOSE n \in 0..63 : Base64Alphabet[n + 1] = ch

\* A base64 decoder: four digits give three bytes, "=" pads the last group.
RECURSIVE Base64Decode(_)
Base64Decode(t) ==
    IF Len(t) < 4 THEN <<>>
    ELSE LET v1 == SextetValue(t[1])
             v2 == SextetValue(t[2])
             v3 == SextetValue(t[3])
             v4 == SextetValue(t[4])
         IN  IF t[3] = "=" THEN <<v1 * 4 + v2 \div 16>>
             ELSE IF t[4] = "="
             THEN <<v1 * 4 + v2 \div 16, (v2 % 16) * 16 + v3 \div 4>>
             ELSE <<v1 * 4 + v2 \div 16, (v2 % 16) * 16 + v3 \div 4,
                    (v3 % 4) * 64 + v4>>
                  \o Base64Decode(SubSeq(t, 5, Len(t)))

\* The base64 text of a data URI "data:image/<format>;base64,<text>".
Payload(uri) == SubSeq(uri, 4, Len(uri))

\* The static map call i ended after the raster request was answered with
\* a success.
RasterSucceeded(i) ==
    /\ Done(i)
    /\ args[i].tool = "naver_static_map"
    /\ sent[i][Len(got[i])].path = "/map-static/v2/raster"
    /\ LastGot(i).kind = "response"
    /\ LastGot(i).status = 200

\* C13: decoding the base64 payload of the image item the static map
\* handler returns gives back the bytes the raster endpoint answered with.
C13_ImageRoundTrip ==
    \A i \in DOMAIN pc :
        RasterSucceeded(i) =>
            /\ result[i].kind = "returned"
            /\ result[i].content[1].type = "image"
            /\ Base64Decode(Payload(result[i].content[1].image_url))
                   = LastGot(i).body.b

\* The three-byte image 255, 0, 77 has been returned as "/wBN".
C13_Witness ==
    \E i \in DOMAIN pc :
        /\ RasterSucceeded(i)
        /\ LastGot(i).body.b = <<255, 0, 77>>
        /\ Payload(result[i].content[1].image_url) = <<"/", "w", "B", "N">>

\* A tenths value that is a whole number.
Whole(n) == n % 10 = 0

\* C14: the static map handler runs, and requests are issued, only for an
\* input whose level is an integer in [1,20], whose w and h are in
\* [1,1280] and whose format is png or jpeg; a call the schema turned down
\* has issued no request.
C14_StaticInputsValidated ==
    \A i \in DOMAIN pc :
        args[i].tool = "naver_static_map" =>
            IF pc[i] = "rejected"
            THEN sent[i] = <<>> /\ result[i].kind = "invalid"
            ELSE /\ Whole(args[i].level)
                 /\ args[i].level >= 10 /\ args[i].level <= 200
                 /\ args[i].w >= 10 /\ args[i].w <= 12800
                 /\ args[i].h >= 10 /\ args[i].h <= 12800
                 /\ args[i].format \in {"png", "jpeg"}

-----------------------------------------------------------------------------
(* Properties of concurrent invocations *)

\* The first step of the handler of a's tool, run on its own.
AloneFirst(a) ==
    TryCatch(CASE a.tool = "naver_directions"      -> DirectionsBegin(a)
               [] a.tool = "naver_geocode"         -> GeocodeBegin(a)
               [] a.tool = "naver_reverse_geocode" -> ReverseBegin(a)
               [] OTHER                            -> StaticBegin(a))

\* The step that follows the await r once its request settled with o.
AloneAfter(a, r, o) ==
    LET c == Settle(o, r.req.binary)
    IN  TryCatch(CASE r.pc = "startGeo"  -> DirectionsAfterStartGeo(a, r.local, c)
                   [] r.pc = "goalGeo"   -> DirectionsAfterGoalGeo(a, r.local, c)
                   [] r.pc = "route"     -> DirectionsAfterRoute(a, r.local, c)
                   [] r.pc = "geocode"   -> GeocodeAfter(a, c)
                   [] r.pc = "reverse"   -> ReverseAfter(a, c)
                   [] r.pc = "centerGeo" -> StaticAfterCenterGeo(a, r.local, c)
                   [] OTHER              -> StaticAfterRaster(a, r.local, c))

\* Where an invocation run alone stands after the outcomes os.
RECURSIVE Alone(_, _, _)
Alone(a, r, os) ==
    IF r.k # "await" \/ os = <<>> THEN r
    ELSE Alone(a, AloneAfter(a, r, Head(os)), Tail(os))

\* C15: however invocations interleave and whatever ran before, each
\* invocation stands where it would stand had it run alone on its own
\* input and the outcomes of its own requests: same suspension point, same
\* locals, same pending request, and at the end the same result.
C15_InvocationsIndependent ==
    \A i \in DOMAIN pc :
        pc[i] \notin {"idle", "rejected"} =>
            LET r == Alone(args[i], AloneFirst(args[i]), got[i])
            IN  IF pc[i] = "done"
                THEN r.k = "return" /\ result[i] = Returned(r.content)
                ELSE /\ r.k = "await"
                     /\ r.pc = pc[i]
                     /\ r.local = local[i]
                     /\ sent[i][Len(sent[i])] = r.req

\* A directions call has ended on its directions answer while another
\* directions call with other input is suspended on its directions
\* request.
C15_Witness ==
    /\ DOMAIN pc = {1, 2}
    /\ Done(1)
    /\ args[1].tool = "naver_directions"
    /\ Len(got[1]) = 2
    /\ LastGot(1).status = 200
    /\ args[2].tool = "naver_directions"
    /\ args[2] # args[1]
    /\ pc[2] = "route"
    /\ local[2].goalCoords # local[1].goalCoords

-----------------------------------------------------------------------------
(* Properties of address resolution *)

\* The inputs of a directions call that are geocoded, in the order of
\* their requests.
Geocoded(a) ==
    (IF isCoordinate(a.start) THEN <<>> ELSE <<a.start>>)
    \o (IF isCoordinate(a.goal) THEN <<>> ELSE <<a.goal>>)

\* A geocode answer with a candidate list whose first entry, if any, is an
\* object, or with no list at all.
CandidatesReadable(o) ==
    /\ IsJsonObject(o)
    /\ HasLength(o.body.v.addresses) => o.body.v.addresses.a[1].t = "object"

\* "<x>,<y>" of the first candidate, or the input s when there is none.
FirstCandidateOr(o, s) ==
    IF HasLength(o.body.v.addresses)
    THEN StringOf(o.body.v.addresses.a[1].x) \o <<",">>
         \o StringOf(o.body.v.addresses.a[1].y)
    ELSE s

\* C16: a directions call geocodes exactly its inputs that are no
\* coordinates, each with the input as the query; once these requests are
\* answered with readable candidate lists the directions request is issued,
\* and its start and goal are "<x>,<y>" of the first candidate where there
\* is one and the input string where there is none.
C16_EndpointsResolvedIndependently ==
    \A i \in DOMAIN pc :
        args[i].tool = "naver_directions" =>
            LET a == args[i]
                qs == Geocoded(a)
                n == Len(qs)
            IN  /\ Len(sent[i]) <= n + 1
                /\ \A j \in 1..Len(sent[i]) :
                      j <= n => /\ sent[i][j].path = GeocodeEndpoint
                                /\ sent[i][j].query = <<<<"query", qs[j]>>>>
                /\ ( /\ Len(got[i]) >= n
                     /\ \A j \in 1..n : CandidatesReadable(got[i][j]) )
                   => /\ Len(sent[i]) = n + 1
                      /\ sent[i][n + 1].path = DirectionsEndpoint
                      /\ sent[i][n + 1].query[1] =
                            <<"start", IF isCoordinate(a.start) THEN a.start
                                       ELSE FirstCandidateOr(got[i][1], a.start)>>
                      /\ sent[i][n + 1].query[2] =
                            <<"goal", IF isCoordinate(a.goal) THEN a.goal
                                      ELSE FirstCandidateOr(got[i][n], a.goal)>>

\* Start and goal were both geocoded: the start got no candidate and is
\* sent as typed, the goal is sent as the first candidate's "127,37.5".
C16_Witness ==
    \E i \in DOMAIN pc :
        /\ args[i].tool = "naver_directions"
        /\ args[i].start = SeoulName
        /\ args[i].goal = SeoulName
        /\ Len(sent[i]) = 3
        /\ IsJsonObject(got[i][1])
        /\ got[i][1].body.v.addresses = Arr(<<>>)
        /\ sent[i][3].query[1] = <<"start", SeoulName>>
        /\ sent[i][3].query[2] = <<"goal", <<"1", "2", "7", ",", "3", "7", ".", "5">>>>

-----------------------------------------------------------------------------
(* Properties of the directions result *)

\* The directions call i ended on a successful directions answer whose
\* body is a JSON object.
DirectionsAnswered(i) ==
    /\ Done(i)
    /\ args[i].tool = "naver_directions"
    /\ sent[i][Len(got[i])].path = DirectionsEndpoint
    /\ IsJsonObject(LastGot(i))

\* The answer holds no route: no route object, or one whose four profile
\* lists are missing or empty.
RouteAbsent(data) ==
    \/ data.route.t \in {"undefined", "null"}
    \/ data.route.t = "object" /\ \A k \in 1..4 : ~Populated(data.route, k)

\* C17: a directions call whose directions request succeeded without any
\* route returns exactly one text item, "gyeongroreul chajeul su
\* eopsseumnida." (route not found), and no error text.
C17_NoRouteNotFound ==
    \A i \in DOMAIN pc :
        (DirectionsAnswered(i) /\ RouteAbsent(LastGot(i).body.v)) =>
            /\ result[i] = OneText(<<RouteNotFound>>)
            /\ result[i].content[1].text[1] # ErrorPrefix

\* An answer with four empty profile lists has been reported as route not
\* found.
C17_Witness ==
    \E i \in DOMAIN pc :
        /\ DirectionsAnswered(i)
        /\ LastGot(i).body.v = DirectionsBody(RouteObject({}, TRUE))
        /\ result[i] = OneText(<<RouteNotFound>>)

\* C18: a static map call whose center is no coordinate geocodes it, and
\* once the answer is read the raster request is issued with the center
\* "<x>,<y>" of the first candidate, or with the center as typed when the
\* answer lists no candidate.
C18_CenterResolvedLikeDirections ==
    \A i \in DOMAIN pc :
        ( /\ args[i].tool = "naver_static_map"
          /\ pc[i] # "rejected"
          /\ ~isCoordinate(args[i].center)
          /\ Len(got[i]) >= 1
          /\ CandidatesReadable(got[i][1]) )
        => /\ Len(sent[i]) = 2
           /\ sent[i][1].path = GeocodeEndpoint
           /\ sent[i][1].query = <<<<"query", args[i].center>>>>
           /\ sent[i][2].path = RasterEndpoint
           /\ sent[i][2].query[1] =
                 <<"center", FirstCandidateOr(got[i][1], args[i].center)>>

-----------------------------------------------------------------------------
(* Properties of the gateway *)

\* The entries of a query string under key.
EntriesOf(query, key) == {j \in 1..Len(query) : query[j][1] = key}

\* C19: the query string of a request holds exactly one entry, the value
\* stringified, for each key of the parameter map whose value is not
\* undefined, and none for a key whose value is undefined, so that no entry
\* reads "undefined"; a directions request carries a waypoints entry only
\* when waypoints was supplied.
C19_UndefinedParamsOmitted ==
    \A i \in DOMAIN pc :
        /\ args[i].tool = "makeNaverAPIRequest" =>
              LET ps == args[i].params
                  q == sent[i][1].query
              IN  /\ \A k \in 1..Len(ps) :
                        IF ps[k][2] = Undefined
                        THEN EntriesOf(q, ps[k][1]) = {}
                        ELSE /\ Cardinality(EntriesOf(q, ps[k][1])) = 1
                             /\ \A j \in EntriesOf(q, ps[k][1]) :
                                   q[j][2] = StringOf(ps[k][2])
                  /\ \A j \in 1..Len(q) :
                        /\ \E k \in 1..Len(ps) : ps[k][1] = q[j][1]
                        /\ q[j][2] # <<"undefined">>
        /\ args[i].tool = "naver_directions" =>
              \A n \in 1..Len(sent[i]) :
                  /\ EntriesOf(sent[i][n].query, "waypoints") # {} =>
                        /\ sent[i][n].path = DirectionsEndpoint
                        /\ args[i].waypoints # Undefined
                        /\ \A j \in EntriesOf(sent[i][n].query, "waypoints") :
                              sent[i][n].query[j][2] = StringOf(args[i].waypoints)
                  /\ \A j \in 1..Len(sent[i][n].query) :
                        sent[i][n].query[j][2] # <<"undefined">>

\* The gateway was called with an undefined value between two defined
\* ones and sent the two defined ones.
C19_Witness ==
    \E i \in DOMAIN pc :
        /\ args[i].tool = "makeNaverAPIRequest"
        /\ Len(args[i].params) = 3
        /\ args[i].params[1][2] = Num(65)
        /\ args[i].params[2][2] = Undefined
        /\ args[i].params[3][2] = Null
        /\ sent[i][1].query = <<<<"start", <<"6", ".", "5">>>>, <<"waypoints", <<"null">>>>>>

-----------------------------------------------------------------------------
(* Properties of the request sequence *)

\* How many of the requests of invocation i went to endpoint.
RequestsTo(i, endpoint) ==
    Cardinality({j \in 1..Len(sent[i]) : sent[i][j].path = endpoint})

\* C20: nothing is retried.  A geocode call and a reverse geocode call
\* issue exactly one request, a directions call at most two geocode
\* requests and one directions request, a static map call at most one
\* geocode request and one raster request; every request but the last has
\* been answered, and a request answered with a failed status is the last
\* one of its invocation.
C20_NeverRetried ==
    \A i \in DOMAIN pc :
        /\ args[i].tool = "naver_geocode" =>
              Len(sent[i]) = 1 /\ RequestsTo(i, GeocodeEndpoint) = 1
        /\ args[i].tool = "naver_reverse_geocode" =>
              Len(sent[i]) = 1 /\ RequestsTo(i, ReverseEndpoint) = 1
        /\ args[i].tool = "naver_directions" =>
              /\ RequestsTo(i, GeocodeEndpoint) <= 2
              /\ RequestsTo(i, DirectionsEndpoint) <= 1
              /\ Len(sent[i]) =
                    RequestsTo(i, GeocodeEndpoint) + RequestsTo(i, DirectionsEndpoint)
        /\ args[i].tool = "naver_static_map" =>
              /\ RequestsTo(i, GeocodeEndpoint) <= 1
              /\ RequestsTo(i, RasterEndpoint) <= 1
              /\ Len(sent[i]) =
                    RequestsTo(i, GeocodeEndpoint) + RequestsTo(i, RasterEndpoint)
        /\ Len(got[i]) <= Len(sent[i])
        /\ Len(sent[i]) <= Len(got[i]) + 1
        /\ \A j \in 1..Len(got[i]) :
              IsFailedStatus(got[i][j]) => Done(i) /\ Len(sent[i]) = j

\* A directions call ended on the failed answer to its first geocode
\* request, with one request issued.
C20_Witness ==
    \E i \in DOMAIN pc :
        /\ Done(i)
        /\ args[i].tool = "naver_directions"
        /\ ~isCoordinate(args[i].start)
        /\ ~isCoordinate(args[i].goal)
        /\ got[i] = <<ServerError>>
        /\ Len(sent[i]) = 1

-----------------------------------------------------------------------------
(* Properties of the credentials *)

\* Every request of every invocation is a GET whose key-id header is the
\* configured client id and whose key header is the configured secret.
RequestsCarryCredentials ==
    \A i \in DOMAIN pc : \A j \in 1..Len(sent[i]) :
        /\ sent[i][j].method = "GET"
        /\ sent[i][j].keyId = config.NAVER_CLIENT_ID
        /\ sent[i][j].key = config.NAVER_CLIENT_SECRET

\* C21: at all times every request issued is a GET that carries the two
\* credentials the server was constructed with, and no step of a handler
\* or of the gateway changes the configuration.
C21_CredentialsOnEveryRequest ==
    /\ [](config \in Configs /\ RequestsCarryCredentials)
    /\ [][config' = config]_vars

\* A server configured with client-b has issued the three requests of a
\* directions call.
C21_Witness ==
    \E i \in DOMAIN pc :
        /\ config.NAVER_CLIENT_ID = "client-b"
        /\ args[i].tool = "naver_directions"
        /\ Len(sent[i]) = 3
        /\ sent[i][3].keyId = "client-b"
        /\ sent[i][3].key = "secret-a"

-----------------------------------------------------------------------------
(* Properties of the static map result *)

\* The center a static map call sends: the input when it is a coordinate,
\* else "<x>,<y>" of the first candidate of its geocode answer.
CenterSent(i) ==
    IF isCoordinate(args[i].center) THEN args[i].center
    ELSE FirstCandidateOr(got[i][1], args[i].center)

\* C22: a static map call that succeeded has issued exactly one raster
\* request, a binary one, with the resolved center and the caller's level,
\* w, h and format; its result is one image item, a data URI labelled with
\* the requested format that carries the base64 of the fetched bytes,
\* followed by one text caption that states the center, the level and the
\* size.
C22_StaticMapInline ==
    \A i \in DOMAIN pc :
        RasterSucceeded(i) =>
            LET req == sent[i][Len(sent[i])]
                a == args[i]
                size == NumberToString(a.w) \o <<"x">> \o NumberToString(a.h)
            IN  /\ RequestsTo(i, RasterEndpoint) = 1
                /\ req.path = RasterEndpoint
                /\ req.binary = TRUE
                /\ req.query = << <<"center", CenterSent(i)>>,
                                  <<"level", NumberToString(a.level)>>,
                                  <<"w", NumberToString(a.w)>>,
                                  <<"h", NumberToString(a.h)>>,
                                  <<"format", <<a.format>>>> >>
                /\ result[i].kind = "returned"
                /\ Len(result[i].content) = 2
                /\ result[i].content[1].type = "image"
                /\ SubSeq(result[i].content[1].image_url, 1, 3)
                      = <<"data:image/", a.format, ";base64,">>
                /\ Base64Decode(Payload(result[i].content[1].image_url))
                      = LastGot(i).body.b
                /\ result[i].content[2].type = "text"
                /\ Contains(result[i].content[2].text,
                            CenterSent(i) \o <<", level: ">>
                            \o NumberToString(a.level) \o <<", size: ">> \o size)

\* A 1280x400 jpeg map of a geocoded center has been returned.
C22_Witness ==
    \E i \in DOMAIN pc :
        /\ RasterSucceeded(i)
        /\ args[i].center = SeoulName
        /\ args[i].format = "jpeg"
        /\ args[i].w = 12800
        /\ Len(sent[i]) = 2
        /\ LastGot(i).body.b = <<77, 0>>
        /\ result[i].content[1].image_url
              = <<"data:image/", "jpeg", ";base64,", "T", "Q", "A", "=">>

-----------------------------------------------------------------------------
(* Properties of the derived fields *)

\* The text "<k/10>km" for k tenths of a kilometer.
TenthsText(k) == NatToString(k \div 10) \o <<".", Digits[(k % 10) + 1]>>

\* C23: for a route of d meters and t milliseconds the directions text
\* shows the distance in kilometers with one decimal, a tenth nearest to
\* d / 1000, and the duration as the whole number of minutes nearest to
\* t / 60000, a half rounded up.
C23_DistanceAndDurationRounded ==
    \A i \in DOMAIN pc :
        ( /\ DirectionsAnswered(i)
          /\ result[i].content[1].text[1] # ErrorPrefix
          /\ ~RouteAbsent(LastGot(i).body.v) )
        => LET s == FirstOf(LastGot(i).body.v.route.trafast).summary
               d == s.distance.n \div 10
               t == s.duration.n \div 10
               text == result[i].content[1].text
           IN  /\ \E k \in 0..(d \div 100 + 1) :
                     /\ 100 * k - 50 <= d
                     /\ d <= 100 * k + 50
                     /\ Contains(text, <<"Distance: ">> \o TenthsText(k) \o <<"km">>)
               /\ \E m \in 0..(t \div 60000 + 1) :
                     /\ 60000 * m - 30000 <= t
                     /\ t < 60000 * m + 30000
                     /\ Contains(text, <<"Duration: ">> \o NatToString(m) \o <<"min">>)

\* A route of 150 meters and 90000 milliseconds is shown as 0.1km, the
\* double 0.15 lying below the decimal 0.15, and as 2 minutes.
C23_Witness ==
    \E i \in DOMAIN pc :
        /\ DirectionsAnswered(i)
        /\ LastGot(i).body.v.route.trafast.a[1].summary.distance = Num(1500)
        /\ LastGot(i).body.v.route.trafast.a[1].summary.duration = Num(900000)
        /\ Contains(result[i].content[1].text, <<"Distance: ", "0", ".", "1", "km">>)
        /\ Contains(result[i].content[1].text, <<"Duration: ", "2", "min">>)

-----------------------------------------------------------------------------
(* Properties of the order of requests *)

\* The endpoint of the primary request of a tool.
PrimaryEndpoint(tool) ==
    CASE tool = "naver_directions"      -> DirectionsEndpoint
      [] tool = "naver_static_map"      -> RasterEndpoint
      [] tool = "naver_reverse_geocode" -> ReverseEndpoint
      [] OTHER                          -> GeocodeEndpoint

\* The inputs an invocation geocodes before its primary request, in the
\* order the claim gives: the start before the goal.
PreSteps(a) ==
    CASE a.tool = "naver_directions" -> Geocoded(a)
      [] a.tool = "naver_static_map" ->
           IF isCoordinate(a.center) THEN <<>> ELSE <<a.center>>
      [] OTHER -> <<>>

\* The request was answered with a success whose body could be read.
AnsweredWell(o, req) ==
    /\ o.kind = "response"
    /\ Ok(o)
    /\ req.binary \/ o.body.k = "json"

-----------------------------------------------------------------------------
(* Properties of completion *)

\* The handler of invocation i has been called and has not returned.
Running(i) == pc[i] \notin {"idle", "done", "rejected"}

\* A running invocation waits for the answer to its last request and has
\* no result; one that ended has exactly one result, a returned one.
SuspendedOnlyOnRequests ==
    \A i \in DOMAIN pc :
        /\ Running(i) =>
              /\ Len(sent[i]) = Len(got[i]) + 1
              /\ result[i] = NoResult
        /\ Done(i) =>
              /\ Len(sent[i]) = Len(got[i])
              /\ result[i].kind = "returned"

\* C25: provided every request issued completes, every invocation that
\* runs ends with one returned result, whatever the other invocations do;
\* while it runs it is suspended on a request of its own and nowhere else.
C25_EveryInvocationCompletes ==
    /\ []SuspendedOnlyOnRequests
    /\ \A i \in Concurrent : Running(i) ~> Done(i)

\* Two directions calls that were in flight together have both ended,
\* each after its own two requests.
C25_Witness ==
    /\ DOMAIN pc = Concurrent
    /\ \A i \in {1, 2} :
          /\ Done(i)
          /\ args[i].tool = "naver_directions"
          /\ Len(got[i]) = 2
          /\ result[i].kind = "returned"
    /\ args[1] # args[2]

====
